---- MODULE Spec2Model ----
(***************************************************************************)
(* Model of the container-creation path of the vHive CRI shim              *)
(* (cri/container_create.go): CreateContainer dispatches on the container  *)
(* name to createUserContainer (boots a VM while a goroutine creates the   *)
(* placeholder container), createQueueProxy (consumes the pod's VM config) *)
(* or straight to the stock runtime client.                                *)
(***************************************************************************)
EXTENDS Integers, Sequences, FiniteSets, TLC

(***************************************************************************)
(* Bounds of the model.                                                    *)
(***************************************************************************)
MaxReq == 3
MaxPod == 2
MaxCid == 2

Pods == 1..MaxPod
ContainerIds == 1..MaxCid

(***************************************************************************)
(* Constants of container_create.go.                                       *)
(***************************************************************************)
userContainerName == "user-container"
queueProxyName == "queue-proxy"
revisionEnv == "K_REVISION"
guestIPEnv == "GUEST_ADDR"
guestPortEnv == "GUEST_PORT"
guestImageEnv == "GUEST_IMAGE"
guestMemorySizeMibEnv == "GUEST_MEM_SIZE_MIB"
defaultMemorySizeMib == 256
guestvCPUCount == "GUEST_VCPU_COUNT"
defaultvCPUCount == 1
guestPortValue == <<"5", "0", "0", "5", "1">>

Nil == "nil"

(***************************************************************************)
(* Strings that the code parses are sequences of one-character strings.    *)
(* Machine integers are little-endian sequences of 16-bit limbs, so that   *)
(* the 64-bit int of strconv.Atoi and the uint32 conversion keep their     *)
(* width.                                                                  *)
(***************************************************************************)
LimbBase == 65536
IntLimbs == 4

Digits == {"0", "1", "2", "3", "4", "5", "6", "7", "8", "9"}

DigitVal(c) ==
  CASE c = "0" -> 0 [] c = "1" -> 1 [] c = "2" -> 2 [] c = "3" -> 3
    [] c = "4" -> 4 [] c = "5" -> 5 [] c = "6" -> 6 [] c = "7" -> 7
    [] c = "8" -> 8 [] c = "9" -> 9

ZeroLimbs == [i \in 1..IntLimbs |-> 0]

\* n*10 + d on the limbs; carry is what does not fit in 64 bits
RECURSIVE MulAdd(_, _, _)
MulAdd(limbs, i, carry) ==
  IF i > Len(limbs) THEN [limbs |-> limbs, carry |-> carry]
  ELSE LET t == limbs[i] * 10 + carry
       IN MulAdd([limbs EXCEPT ![i] = t % LimbBase], i + 1, t \div LimbBase)

\* strconv.ParseUint(s, 10, 64): the magnitude, or a syntax/range error
RECURSIVE ParseUint(_, _, _)
ParseUint(s, i, acc) ==
  IF i > Len(s) THEN [err |-> Nil, mag |-> acc]
  ELSE IF s[i] \notin Digits THEN [err |-> "ErrSyntax", mag |-> ZeroLimbs]
  ELSE LET m == MulAdd(acc, 1, DigitVal(s[i]))
       IN IF m.carry # 0 THEN [err |-> "ErrRange", mag |-> ZeroLimbs]
          ELSE ParseUint(s, i + 1, m.limbs)

IsMinInt(mag) == mag = [i \in 1..IntLimbs |-> IF i = IntLimbs THEN LimbBase \div 2 ELSE 0]

\* strconv.Atoi: optional sign, then decimal digits, within the int range
Atoi(s) ==
  IF Len(s) = 0 THEN [err |-> "ErrSyntax", neg |-> FALSE, mag |-> ZeroLimbs]
  ELSE LET signed == s[1] \in {"+", "-"}
           neg == s[1] = "-"
           body == IF signed THEN SubSeq(s, 2, Len(s)) ELSE s
       IN IF Len(body) = 0 THEN [err |-> "ErrSyntax", neg |-> FALSE, mag |-> ZeroLimbs]
          ELSE LET u == ParseUint(body, 1, ZeroLimbs)
               IN IF u.err # Nil THEN [err |-> u.err, neg |-> FALSE, mag |-> ZeroLimbs]
                  ELSE IF u.mag[IntLimbs] >= LimbBase \div 2 /\ ~(neg /\ IsMinInt(u.mag))
                       THEN [err |-> "ErrRange", neg |-> FALSE, mag |-> ZeroLimbs]
                  ELSE [err |-> Nil, neg |-> neg, mag |-> u.mag]

\* uint32(n) for an int n: the low 32 bits of its two's complement
Uint32(n) ==
  LET lo == n.mag[1]
      hi == n.mag[2]
  IN IF ~n.neg \/ (lo = 0 /\ hi = 0) THEN <<hi, lo>>
     ELSE IF lo = 0 THEN <<LimbBase - hi, 0>>
     ELSE <<LimbBase - 1 - hi, LimbBase - lo>>

\* a small constant as a uint32
U32(k) == <<k \div LimbBase, k % LimbBase>>

(***************************************************************************)
(* Launch-parameter extraction.                                            *)
(***************************************************************************)
\* the error of getGuestImage and getRevisionId (the same text in both)
ErrNoImage == "failed to provide non empty guest image in user container config"

RECURSIVE FindEnv(_, _, _)
FindEnv(envs, key, i) ==
  IF i > Len(envs) THEN 0
  ELSE IF envs[i].key = key THEN i
  ELSE FindEnv(envs, key, i + 1)

getGuestImage(envs) ==
  LET i == FindEnv(envs, guestImageEnv, 1)
  IN IF i # 0 THEN [val |-> envs[i].value, err |-> Nil]
     ELSE [val |-> <<>>, err |-> ErrNoImage]

getRevisionId(envs) ==
  LET i == FindEnv(envs, revisionEnv, 1)
  IN IF i # 0 THEN [val |-> envs[i].value, err |-> Nil]
     ELSE [val |-> <<>>, err |-> ErrNoImage]

getMemorySize(envs) ==
  LET i == FindEnv(envs, guestMemorySizeMibEnv, 1)
  IN IF i # 0
     THEN LET n == Atoi(envs[i].value)
          IN IF n.err = Nil THEN [val |-> Uint32(n), err |-> Nil]
             ELSE [val |-> U32(0), err |-> n.err]
     ELSE [val |-> U32(defaultMemorySizeMib), err |-> Nil]

\* getvCPUCount falling back to the default when the value does not parse
getvCPUCount_DefaultsOnError(envs) ==
  LET i == FindEnv(envs, guestvCPUCount, 1)
  IN IF i # 0
     THEN LET n == Atoi(envs[i].value)
          IN IF n.err = Nil THEN [val |-> Uint32(n), err |-> Nil]
             ELSE [val |-> U32(defaultvCPUCount), err |-> Nil]
     ELSE [val |-> U32(defaultvCPUCount), err |-> Nil]

getvCPUCount(envs) ==
  LET i == FindEnv(envs, guestvCPUCount, 1)
  IN IF i # 0
     THEN LET n == Atoi(envs[i].value)
          IN IF n.err = Nil THEN [val |-> Uint32(n), err |-> Nil]
             ELSE [val |-> U32(0), err |-> n.err]
     ELSE [val |-> U32(defaultvCPUCount), err |-> Nil]

(***************************************************************************)
(* Requests.  A request carries the pod-sandbox id, the container name and *)
(* the environment entries; the rest of the configuration is opaque and    *)
(* passed through.                                                         *)
(***************************************************************************)
KV(k, v) == [key |-> k, value |-> v]

ImageKV == KV(guestImageEnv, <<"f", "n", ":", "v", "1">>)
RevisionKV == KV(revisionEnv, <<"r", "e", "v", "-", "7">>)

\* values tried for GUEST_MEM_SIZE_MIB and GUEST_VCPU_COUNT
NumericValues ==
  { <<"5", "1", "2">>, <<"2">>, <<"0">>, <<"+", "7">>, <<"0", "1", "6">>,
    <<"-", "1">>, <<"-", "6", "5", "5", "3", "6">>,
    <<"4", "2", "9", "4", "9", "6", "7", "2", "9", "5">>,
    <<"4", "2", "9", "4", "9", "6", "7", "2", "9", "6">>,
    <<"9", "2", "2", "3", "3", "7", "2", "0", "3", "6", "8", "5", "4", "7", "7", "5", "8", "0", "8">>,
    <<>>, <<"a", "b", "c">>, <<"1", "2", "a">>, <<"1", ".", "5">>, <<"-">> }

Opt(k, vals) == {<<>>} \cup {<<KV(k, v)>> : v \in vals}

\* every combination of present/absent variables, in the order the
\* orchestrator lists them, and two lists that repeat a key
AllEnvs ==
  { i \o v \o m \o c :
      i \in {<<>>, <<ImageKV>>}, v \in {<<>>, <<RevisionKV>>},
      m \in Opt(guestMemorySizeMibEnv, NumericValues),
      c \in Opt(guestvCPUCount, NumericValues) }
  \cup { <<KV(guestMemorySizeMibEnv, <<"6", "4">>), ImageKV, RevisionKV,
           KV(guestMemorySizeMibEnv, <<"x">>)>>,
         <<RevisionKV, KV(guestvCPUCount, <<"x">>), ImageKV,
           KV(guestvCPUCount, <<"4">>)>> }

\* the environment of the workload requests that run concurrently
ConcEnvs == { <<ImageKV, RevisionKV>> }

\* the environment of the requests whose variables the code does not read
PlainEnvs == { <<KV("PORT", <<"8", "0">>)>> }

OtherName == "istio-proxy"

\* a nil *CreateContainerResponse
NilResp == [ContainerId |-> 0]

NoReq == [name |-> Nil, pod |-> 0, envs |-> <<>>]
NoRet == [resp |-> NilResp, err |-> Nil]
NoInst == [vmID |-> 0, GuestIP |-> <<>>]
NoConfig == [guestIP |-> <<>>, guestPort |-> <<>>]

\* errors of the collaborators
ErrStartVM == "failed to start VM"
ErrStock == "stock runtime error"
ErrActive == "VM already active"
ErrNoConfig == "VM config for pod does not exist"

DigitChar(k) ==
  CASE k = 0 -> "0" [] k = 1 -> "1" [] k = 2 -> "2" [] k = 3 -> "3"
    [] k = 4 -> "4" [] k = 5 -> "5" [] k = 6 -> "6" [] k = 7 -> "7"
    [] k = 8 -> "8" [] k = 9 -> "9"

\* the guest address the VM supervisor assigns to the VM booted for r
IPOf(r) == <<"i", "p", DigitChar(r)>>

VARIABLES
  req,          \* the request each CreateContainer call received
  pc,           \* where each call is
  task,         \* the placeholder goroutine: "none", "running", "done"
  stockResp,    \* captured by the goroutine
  stockErr,     \* captured by the goroutine
  funcInst,     \* the VM instance startVM returned to the call
  vmConfig,     \* the config createQueueProxy read
  ret,          \* what the call returned
  podVMConfigs, \* Service.podVMConfigs
  activeVMs,    \* coordinator's active VM instances
  vmCalls,      \* arguments of the startVM calls made for each request
  stockCalls,   \* requests forwarded to the stock runtime for each request
  pubCount,     \* history: publishes per pod
  seen          \* history: what each sidecar lookup observed

vars == <<req, pc, task, stockResp, stockErr, funcInst, vmConfig, ret,
          podVMConfigs, activeVMs, vmCalls, stockCalls, pubCount, seen>>

NoSeen == [pubs |-> 0, removed |-> {}, pubsAtRemove |-> 0]

InitWith(n) ==
  /\ req = [r \in 1..n |-> NoReq]
  /\ pc = [r \in 1..n |-> "idle"]
  /\ task = [r \in 1..n |-> "none"]
  /\ stockResp = [r \in 1..n |-> NilResp]
  /\ stockErr = [r \in 1..n |-> Nil]
  /\ funcInst = [r \in 1..n |-> NoInst]
  /\ vmConfig = [r \in 1..n |-> NoConfig]
  /\ ret = [r \in 1..n |-> NoRet]
  /\ podVMConfigs = <<>>
  /\ activeVMs = <<>>
  /\ vmCalls = [r \in 1..n |-> <<>>]
  /\ stockCalls = [r \in 1..n |-> <<>>]
  /\ pubCount = [p \in Pods |-> 0]
  /\ seen = [r \in 1..n |-> NoSeen]

Init == InitWith(MaxReq)

(***************************************************************************)
(* The two stores.  Each operation runs under the owner's lock, so it is   *)
(* one atomic step; a sequence of operations is not.                       *)
(***************************************************************************)
MapPut(m, k, v) == [x \in DOMAIN m \cup {k} |-> IF x = k THEN v ELSE m[x]]
MapDel(m, k) == [x \in DOMAIN m \ {k} |-> m[x]]

insertPodVMConfig(m, podID, cfg) == MapPut(m, podID, cfg)
removePodVMConfig(m, podID) == MapDel(m, podID)
getPodVMConfig(m, podID) ==
  IF podID \in DOMAIN m THEN [cfg |-> m[podID], err |-> Nil]
  ELSE [cfg |-> NoConfig, err |-> ErrNoConfig]

\* insertActive: the new map and the error; write-once per key
insertActive(m, containerdID, inst) ==
  IF containerdID \in DOMAIN m THEN [vms |-> m, err |-> ErrActive]
  ELSE [vms |-> MapPut(m, containerdID, inst), err |-> Nil]

(***************************************************************************)
(* createUserContainer, lines 82-107: the launch parameters, or the first  *)
(* extraction error.                                                       *)
(***************************************************************************)
Extract(envs) ==
  LET guestImage == getGuestImage(envs)
      revision == getRevisionId(envs)
      memSizeMib == getMemorySize(envs)
      vCPUCount == getvCPUCount(envs)
      none == [image |-> <<>>, revision |-> <<>>, mem |-> U32(0), vcpu |-> U32(0)]
  IN IF guestImage.err # Nil THEN [args |-> none, err |-> guestImage.err]
     ELSE IF revision.err # Nil THEN [args |-> none, err |-> revision.err]
     ELSE IF memSizeMib.err # Nil THEN [args |-> none, err |-> memSizeMib.err]
     ELSE IF vCPUCount.err # Nil THEN [args |-> none, err |-> vCPUCount.err]
     ELSE [args |-> [image |-> guestImage.val, revision |-> revision.val,
                     mem |-> memSizeMib.val, vcpu |-> vCPUCount.val],
           err |-> Nil]

Live == DOMAIN pc

\* requests are numbered in their order of arrival, pods in the order of
\* their first request, container ids in the order the stock runtime first
\* returns them
Arrives(r) == pc[r] = "idle" /\ \A q \in Live : q < r => pc[q] # "idle"

UsedPods == {req[q].pod : q \in {x \in Live : pc[x] # "idle"}}
NextPods == {p \in Pods : \A k \in 1..(p - 1) : k \in UsedPods}

UsedCids ==
  {stockCalls[q][1].resp.ContainerId :
     q \in {x \in Live : stockCalls[x] # <<>> /\ stockCalls[x][1].err = Nil}}
NextCids == {c \in ContainerIds : \A k \in 1..(c - 1) : k \in UsedCids}

(***************************************************************************)
(* The collaborators.  startVM boots a fresh instance or fails; the stock  *)
(* runtime answers with a container id or fails.                           *)
(***************************************************************************)
StartVMOutcomes(r) ==
  { [inst |-> [vmID |-> r, GuestIP |-> IPOf(r)], err |-> Nil],
    [inst |-> NoInst, err |-> ErrStartVM] }

StockOutcomes ==
  { [resp |-> [ContainerId |-> c], err |-> Nil] : c \in NextCids }
  \cup { [resp |-> NilResp, err |-> ErrStock] }

\* one call of stockRuntimeClient.CreateContainer: the request and the answer
StockCall(q, o) == [req |-> q, resp |-> o.resp, err |-> o.err]

(***************************************************************************)
(* CreateContainer with the workload name: createUserContainer up to the   *)
(* startVM call.  The goroutine is started first (lines 77-80), then the   *)
(* parameters are extracted; an extraction error returns at once.          *)
(***************************************************************************)
createUserContainer(r, envSet) ==
  /\ Arrives(r)
  /\ \E p \in NextPods, e \in envSet :
       LET x == Extract(e)
       IN /\ req' = [req EXCEPT ![r] = [name |-> userContainerName, pod |-> p, envs |-> e]]
          /\ task' = [task EXCEPT ![r] = "running"]
          /\ IF x.err # Nil
             THEN /\ pc' = [pc EXCEPT ![r] = "done"]
                  /\ ret' = [ret EXCEPT ![r] = [resp |-> NilResp, err |-> x.err]]
                  /\ UNCHANGED vmCalls
             ELSE /\ pc' = [pc EXCEPT ![r] = "startVM"]
                  /\ vmCalls' = [vmCalls EXCEPT ![r] = Append(@, x.args)]
                  /\ UNCHANGED ret
  /\ UNCHANGED <<stockResp, stockErr, funcInst, vmConfig, podVMConfigs,
                 activeVMs, stockCalls, pubCount, seen>>

\* stockDone closed only when the stock runtime answered without an error
CloseStockDone_OnSuccessOnly(err) == IF err # Nil THEN "exited" ELSE "done"

\* line 78: the deferred close(stockDone) runs whatever the answer was
CloseStockDone(err) == "done"

\* the goroutine of lines 77-80: forwards the request as received
PlaceholderTask(r) ==
  /\ task[r] = "running"
  /\ \E o \in StockOutcomes :
       /\ stockResp' = [stockResp EXCEPT ![r] = o.resp]
       /\ stockErr' = [stockErr EXCEPT ![r] = o.err]
       /\ stockCalls' = [stockCalls EXCEPT ![r] = Append(@, StockCall(req[r], o))]
       /\ task' = [task EXCEPT ![r] = CloseStockDone(o.err)]
  /\ UNCHANGED <<req, pc, funcInst, vmConfig, ret, podVMConfigs, activeVMs,
                 vmCalls, pubCount, seen>>

\* the boot error left unchecked
VMBootAborts_Unchecked(err) == FALSE

\* line 111: a failed boot ends the request
VMBootAborts(err) == err # Nil

\* the VM config published only after the join
Publish_Deferred(m, podID, cfg) == m

\* lines 116-118: the VM config of the pod is published
Publish(m, podID, cfg) == insertPodVMConfig(m, podID, cfg)

\* startVM's return handled only once the goroutine has finished
StartVMReturns_JoinsFirst(r) ==
  /\ pc[r] = "startVM"
  /\ task[r] = "done"
  /\ \E o \in StartVMOutcomes(r) :
       IF VMBootAborts(o.err)
       THEN /\ pc' = [pc EXCEPT ![r] = "done"]
            /\ ret' = [ret EXCEPT ![r] = [resp |-> NilResp, err |-> o.err]]
            /\ UNCHANGED <<funcInst, podVMConfigs, pubCount>>
       ELSE /\ pc' = [pc EXCEPT ![r] = "wait"]
            /\ funcInst' = [funcInst EXCEPT ![r] = o.inst]
            /\ podVMConfigs' = Publish(podVMConfigs, req[r].pod,
                                  [guestIP |-> o.inst.GuestIP, guestPort |-> guestPortValue])
            /\ pubCount' = [pubCount EXCEPT ![req[r].pod] = @ + 1]
            /\ UNCHANGED ret
  /\ UNCHANGED <<req, task, stockResp, stockErr, vmConfig, activeVMs, vmCalls,
                 stockCalls, seen>>

\* lines 110-118: startVM returns; on success the VM config of the pod is
\* published before the goroutine is joined
StartVMReturns(r) ==
  /\ pc[r] = "startVM"
  /\ \E o \in StartVMOutcomes(r) :
       IF VMBootAborts(o.err)
       THEN /\ pc' = [pc EXCEPT ![r] = "done"]
            /\ ret' = [ret EXCEPT ![r] = [resp |-> NilResp, err |-> o.err]]
            /\ UNCHANGED <<funcInst, podVMConfigs, pubCount>>
       ELSE /\ pc' = [pc EXCEPT ![r] = "wait"]
            /\ funcInst' = [funcInst EXCEPT ![r] = o.inst]
            /\ podVMConfigs' = Publish(podVMConfigs, req[r].pod,
                                  [guestIP |-> o.inst.GuestIP, guestPort |-> guestPortValue])
            /\ pubCount' = [pubCount EXCEPT ![req[r].pod] = @ + 1]
            /\ UNCHANGED ret
  /\ UNCHANGED <<req, task, stockResp, stockErr, vmConfig, activeVMs, vmCalls,
                 stockCalls, seen>>

\* the placeholder error left unchecked
PlaceholderAborts_Unchecked(err) == FALSE

\* line 124: a failed placeholder creation ends the request
PlaceholderAborts(err) == err # Nil

\* the registration left out
RegisterActive_Skipped(m, resp, inst) == [vms |-> m, err |-> Nil]

\* lines 129-130: register the VM under the placeholder's container id
RegisterActive(m, resp, inst) == insertActive(m, resp.ContainerId, inst)

\* the join left out
TaskJoined_NoWait(t) == TRUE

\* line 121: <-stockDone blocks until the goroutine has closed the channel
TaskJoined(t) == t = "done"

\* the registry's error left unchecked
InsertAborts_Unchecked(err) == FALSE

\* line 131: a failed registration ends the request
InsertAborts(err) == err # Nil

\* the published VM config withdrawn when the placeholder creation failed
JoinPlaceholder_Retracts(r) ==
  /\ pc[r] = "wait"
  /\ TaskJoined(task[r])
  /\ IF PlaceholderAborts(stockErr[r])
     THEN /\ ret' = [ret EXCEPT ![r] = [resp |-> NilResp, err |-> stockErr[r]]]
          /\ UNCHANGED activeVMs
          /\ podVMConfigs' = removePodVMConfig(podVMConfigs, req[r].pod)
     ELSE LET i == RegisterActive(activeVMs, stockResp[r], funcInst[r])
          IN /\ activeVMs' = i.vms
             /\ UNCHANGED podVMConfigs
             /\ ret' = [ret EXCEPT ![r] =
                          IF InsertAborts(i.err) THEN [resp |-> NilResp, err |-> i.err]
                          ELSE [resp |-> stockResp[r], err |-> stockErr[r]]]
  /\ pc' = [pc EXCEPT ![r] = "done"]
  /\ UNCHANGED <<req, task, stockResp, stockErr, funcInst, vmConfig,
                 vmCalls, stockCalls, pubCount, seen>>

\* lines 120-136: join the goroutine, then register the VM
JoinPlaceholder(r) ==
  /\ pc[r] = "wait"
  /\ TaskJoined(task[r])
  /\ IF PlaceholderAborts(stockErr[r])
     THEN /\ ret' = [ret EXCEPT ![r] = [resp |-> NilResp, err |-> stockErr[r]]]
          /\ UNCHANGED activeVMs
     ELSE LET i == RegisterActive(activeVMs, stockResp[r], funcInst[r])
          IN /\ activeVMs' = i.vms
             /\ ret' = [ret EXCEPT ![r] =
                          IF InsertAborts(i.err) THEN [resp |-> NilResp, err |-> i.err]
                          ELSE [resp |-> stockResp[r], err |-> stockErr[r]]]
  /\ pc' = [pc EXCEPT ![r] = "done"]
  /\ UNCHANGED <<req, task, stockResp, stockErr, funcInst, vmConfig,
                 podVMConfigs, vmCalls, stockCalls, pubCount, seen>>

(***************************************************************************)
(* CreateContainer with the sidecar name: createQueueProxy.                *)
(***************************************************************************)
\* the two values appended under each other's name
WithGuestEnvs_Swapped(q, cfg) ==
  [q EXCEPT !.envs = @ \o <<KV(guestIPEnv, cfg.guestPort), KV(guestPortEnv, cfg.guestIP)>>]

\* lines 148-150: the request with the two guest variables appended
WithGuestEnvs(q, cfg) ==
  [q EXCEPT !.envs = @ \o <<KV(guestIPEnv, cfg.guestIP), KV(guestPortEnv, cfg.guestPort)>>]

\* the lookup error left unchecked
LookupAborts_Unchecked(err) == FALSE

\* line 141: a failed lookup ends the request
LookupAborts(err) == err # Nil

\* the sidecar requests of pod p that have consumed a config and returned
Consumers(p) ==
  {q \in Live : /\ req[q].name = queueProxyName /\ req[q].pod = p
                /\ pc[q] = "done" /\ ret[q].err # ErrNoConfig}

\* lines 140-144: the lookup; a missing entry returns the error at once
createQueueProxy(r) ==
  /\ Arrives(r)
  /\ \E p \in NextPods, e \in PlainEnvs :
       LET g == getPodVMConfig(podVMConfigs, p)
       IN /\ req' = [req EXCEPT ![r] = [name |-> queueProxyName, pod |-> p, envs |-> e]]
          /\ seen' = [seen EXCEPT ![r] =
                        [pubs |-> pubCount[p], removed |-> Consumers(p), pubsAtRemove |-> 0]]
          /\ IF LookupAborts(g.err)
             THEN /\ pc' = [pc EXCEPT ![r] = "done"]
                  /\ ret' = [ret EXCEPT ![r] = [resp |-> NilResp, err |-> g.err]]
                  /\ UNCHANGED vmConfig
             ELSE /\ pc' = [pc EXCEPT ![r] = "qp_remove"]
                  /\ vmConfig' = [vmConfig EXCEPT ![r] = g.cfg]
                  /\ UNCHANGED ret
  /\ UNCHANGED <<task, stockResp, stockErr, funcInst, podVMConfigs, activeVMs,
                 vmCalls, stockCalls, pubCount>>

\* the entry left in the store
DropConfig_Keeps(m, podID) == m

\* line 146: the entry is single-use
DropConfig(m, podID) == removePodVMConfig(m, podID)

\* the entry put back when the stock runtime failed
ConsumeConfig_RestoresOnFailure(r) ==
  /\ pc[r] = "qp_remove"
  /\ seen' = [seen EXCEPT ![r].pubsAtRemove = pubCount[req[r].pod]]
  /\ \E o \in StockOutcomes :
       /\ podVMConfigs' = IF o.err # Nil THEN podVMConfigs
                          ELSE DropConfig(podVMConfigs, req[r].pod)
       /\ stockCalls' = [stockCalls EXCEPT ![r] =
                           Append(@, StockCall(WithGuestEnvs(req[r], vmConfig[r]), o))]
       /\ ret' = [ret EXCEPT ![r] = IF o.err # Nil THEN [resp |-> NilResp, err |-> o.err]
                                    ELSE [resp |-> o.resp, err |-> Nil]]
  /\ pc' = [pc EXCEPT ![r] = "done"]
  /\ UNCHANGED <<req, task, stockResp, stockErr, funcInst, vmConfig,
                 activeVMs, vmCalls, pubCount>>

\* lines 146-158: remove the entry, append the variables, forward to the
\* stock runtime and return its answer
ConsumeConfig(r) ==
  /\ pc[r] = "qp_remove"
  /\ podVMConfigs' = DropConfig(podVMConfigs, req[r].pod)
  /\ seen' = [seen EXCEPT ![r].pubsAtRemove = pubCount[req[r].pod]]
  /\ \E o \in StockOutcomes :
       /\ stockCalls' = [stockCalls EXCEPT ![r] =
                           Append(@, StockCall(WithGuestEnvs(req[r], vmConfig[r]), o))]
       /\ ret' = [ret EXCEPT ![r] = IF o.err # Nil THEN [resp |-> NilResp, err |-> o.err]
                                    ELSE [resp |-> o.resp, err |-> Nil]]
  /\ pc' = [pc EXCEPT ![r] = "done"]
  /\ UNCHANGED <<req, task, stockResp, stockErr, funcInst, vmConfig,
                 activeVMs, vmCalls, pubCount>>

\* the other containers forwarded without their environment
ForwardOther_DropsEnvs(r) ==
  /\ Arrives(r)
  /\ \E p \in NextPods, e \in PlainEnvs, o \in StockOutcomes :
       LET q == [name |-> OtherName, pod |-> p, envs |-> e]
       IN /\ req' = [req EXCEPT ![r] = q]
          /\ stockCalls' = [stockCalls EXCEPT ![r] =
                              Append(@, StockCall([q EXCEPT !.envs = <<>>], o))]
          /\ ret' = [ret EXCEPT ![r] = [resp |-> o.resp, err |-> o.err]]
  /\ pc' = [pc EXCEPT ![r] = "done"]
  /\ UNCHANGED <<task, stockResp, stockErr, funcInst, vmConfig,
                 podVMConfigs, activeVMs, vmCalls, pubCount, seen>>

(***************************************************************************)
(* CreateContainer with any other name: forwarded to the stock runtime,    *)
(* whose answer is returned (line 66).                                     *)
(***************************************************************************)
ForwardOther(r) ==
  /\ Arrives(r)
  /\ \E p \in NextPods, e \in PlainEnvs, o \in StockOutcomes :
       LET q == [name |-> OtherName, pod |-> p, envs |-> e]
       IN /\ req' = [req EXCEPT ![r] = q]
          /\ stockCalls' = [stockCalls EXCEPT ![r] = Append(@, StockCall(q, o))]
          /\ ret' = [ret EXCEPT ![r] = [resp |-> o.resp, err |-> o.err]]
  /\ pc' = [pc EXCEPT ![r] = "done"]
  /\ UNCHANGED <<task, stockResp, stockErr, funcInst, vmConfig,
                 podVMConfigs, activeVMs, vmCalls, pubCount, seen>>

\* CreateContainer, lines 51-67: dispatch on the container name
CreateContainer(r, envSet) ==
  \/ createUserContainer(r, envSet)
  \/ createQueueProxy(r)
  \/ ForwardOther(r)

Next ==
  \/ \E r \in Live : CreateContainer(r, ConcEnvs)
  \/ \E r \in Live : PlaceholderTask(r)
  \/ \E r \in Live : StartVMReturns(r)
  \/ \E r \in Live : JoinPlaceholder(r)
  \/ \E r \in Live : ConsumeConfig(r)

Spec == Init /\ [][Next]_vars

(***************************************************************************)
(* The extraction on its own: a well-formed workload request, then a       *)
(* workload request with any of the environments, running concurrently.    *)
(***************************************************************************)
InitExtract == InitWith(2)

NextExtract ==
  \/ createUserContainer(1, ConcEnvs)
  \/ createUserContainer(2, AllEnvs)
  \/ \E r \in Live : PlaceholderTask(r)
  \/ \E r \in Live : StartVMReturns(r)
  \/ \E r \in Live : JoinPlaceholder(r)

SpecExtract == InitExtract /\ [][NextExtract]_vars

(***************************************************************************)
(* The requests that have arrived keep running: the goroutine and the      *)
(* request's own goroutine are scheduled, and startVM and the stock        *)
(* runtime answer every call. Arrivals are not forced.                     *)
(***************************************************************************)
Fairness ==
  \A r \in 1..MaxReq :
    /\ WF_vars(PlaceholderTask(r))
    /\ WF_vars(StartVMReturns(r))
    /\ WF_vars(JoinPlaceholder(r))
    /\ WF_vars(ConsumeConfig(r))

FairSpec == Init /\ [][Next]_vars /\ Fairness

TypeOK ==
  /\ \A r \in Live : pc[r] \in {"idle", "startVM", "wait", "qp_remove", "done"}
  /\ DOMAIN podVMConfigs \subseteq Pods
  /\ DOMAIN activeVMs \subseteq ContainerIds

(***************************************************************************)
(* What a request says, read off its environment without the code's        *)
(* scanning and parsing: the properties below compare the code with it.    *)
(***************************************************************************)
HasKey(envs, k) == \E i \in 1..Len(envs) : envs[i].key = k

FirstValue(envs, k) ==
  envs[CHOOSE i \in 1..Len(envs) :
         envs[i].key = k /\ \A j \in 1..(i - 1) : envs[j].key # k].value

Negative(s) == Len(s) > 0 /\ s[1] = "-"
Body(s) == IF Len(s) > 0 /\ s[1] \in {"+", "-"} THEN Tail(s) ELSE s

\* an optionally signed, non-empty string of decimal digits
IsNumeral(s) == Len(Body(s)) > 0 /\ \A i \in 1..Len(Body(s)) : Body(s)[i] \in Digits

\* a digit string without its leading zeros
Canon(d) ==
  IF \A i \in 1..Len(d) : d[i] = "0" THEN <<"0">>
  ELSE SubSeq(d, CHOOSE i \in 1..Len(d) : d[i] # "0" /\ \A j \in 1..(i - 1) : d[j] = "0",
              Len(d))

\* a <= b for digit strings without leading zeros
DecLeq(a, b) ==
  \/ Len(a) < Len(b)
  \/ /\ Len(a) = Len(b)
     /\ \/ a = b
        \/ \E i \in 1..Len(a) :
             /\ DigitVal(a[i]) < DigitVal(b[i])
             /\ \A j \in 1..(i - 1) : a[j] = b[j]

MaxIntDec == <<"9", "2", "2", "3", "3", "7", "2", "0", "3", "6", "8", "5", "4", "7", "7", "5", "8", "0", "7">>
MinIntDec == <<"9", "2", "2", "3", "3", "7", "2", "0", "3", "6", "8", "5", "4", "7", "7", "5", "8", "0", "8">>

\* a numeral of a number the 64-bit int holds
Numeric(s) ==
  /\ IsNumeral(s)
  /\ DecLeq(Canon(Body(s)), IF Negative(s) THEN MinIntDec ELSE MaxIntDec)

\* the decimal digits of a uint32
RECURSIVE ToDecimal(_)
ToDecimal(u) ==
  IF u[1] = 0 /\ u[2] < 10 THEN <<DigitChar(u[2])>>
  ELSE LET t == (u[1] % 10) * LimbBase + u[2]
       IN ToDecimal(<<u[1] \div 10, t \div 10>>) \o <<DigitChar(t % 10)>>

\* the number the numeral s denotes is the unsigned number u
Denotes(s, u) ==
  /\ ~Negative(s) \/ Canon(Body(s)) = <<"0">>
  /\ Canon(Body(s)) = ToDecimal(u)

NumericKeys == {guestMemorySizeMibEnv, guestvCPUCount}

ExtractionFails(envs) ==
  \/ ~HasKey(envs, guestImageEnv)
  \/ ~HasKey(envs, revisionEnv)
  \/ \E k \in NumericKeys : HasKey(envs, k) /\ ~Numeric(FirstValue(envs, k))

ParseErrors == {"ErrSyntax", "ErrRange"}
ParseError(s) == IF IsNumeral(s) THEN "ErrRange" ELSE "ErrSyntax"

\* the error of the first extraction that fails
ExtractionError(envs) ==
  IF ~HasKey(envs, guestImageEnv) \/ ~HasKey(envs, revisionEnv) THEN ErrNoImage
  ELSE IF HasKey(envs, guestMemorySizeMibEnv) /\ ~Numeric(FirstValue(envs, guestMemorySizeMibEnv))
       THEN ParseError(FirstValue(envs, guestMemorySizeMibEnv))
  ELSE ParseError(FirstValue(envs, guestvCPUCount))

IsWorkload(r) == req[r].name = userContainerName
IsSidecar(r) == req[r].name = queueProxyName
IsOther(r) == req[r].name \notin {Nil, userContainerName, queueProxyName}

\* this step is one of request r or of its goroutine
StepOf(r) == req[r] # req'[r] \/ pc[r] # pc'[r] \/ task[r] # task'[r]

\* the registry entries that hold the VM booted for request r
EntriesOf(vms, r) == {c \in DOMAIN vms : vms[c].vmID = r}

(***************************************************************************)
(* C1: a workload request whose parameter extraction fails never has a     *)
(* placeholder-container creation issued to the stock runtime.             *)
(* (The goroutine is started before the extraction, so this fails.)        *)
(***************************************************************************)
C1_NoStockCallOnExtractionFailure ==
  \A r \in Live :
    IsWorkload(r) /\ ExtractionFails(req[r].envs) => stockCalls[r] = <<>>

(***************************************************************************)
(* C2: a workload request whose parameter extraction fails never calls     *)
(* startVM, none of its steps changes the Pod VM Config Store or the       *)
(* Active VM Registry, and the caller receives the extraction error.       *)
(***************************************************************************)
C2_ExtractionFailureStartsNoVM ==
  [][\A r \in Live :
       (req'[r].name = userContainerName /\ ExtractionFails(req'[r].envs)) =>
         /\ vmCalls'[r] = <<>>
         /\ funcInst'[r] = NoInst
         /\ pc'[r] = "done"
         /\ ret'[r] = [resp |-> NilResp, err |-> ExtractionError(req'[r].envs)]
         /\ StepOf(r) => UNCHANGED <<podVMConfigs, activeVMs>>]_vars

\* a failed extraction whose goroutine has finished, beside a published
\* config and a registered VM of another request
C2_Witness ==
  \E r \in Live :
    /\ IsWorkload(r) /\ ExtractionFails(req[r].envs)
    /\ HasKey(req[r].envs, guestImageEnv) /\ HasKey(req[r].envs, revisionEnv)
    /\ pc[r] = "done" /\ task[r] = "done"
    /\ DOMAIN podVMConfigs # {} /\ DOMAIN activeVMs # {}

(***************************************************************************)
(* C10: for a workload request with image and revision, startVM is called  *)
(* with memory size 256 / vCPU count 1 when the variable is absent and     *)
(* with exactly the number the value denotes when it is present and        *)
(* numeric; a non-numeric value yields an error and no call.               *)
(* (uint32() wraps negative and large numbers, so this fails.)             *)
(***************************************************************************)
ArgIsExact(envs, k, arg, default) ==
  IF HasKey(envs, k) THEN Denotes(FirstValue(envs, k), arg) ELSE arg = U32(default)

C10_DefaultsAndExactValues ==
  \A r \in Live :
    (IsWorkload(r) /\ HasKey(req[r].envs, guestImageEnv) /\ HasKey(req[r].envs, revisionEnv)) =>
      LET e == req[r].envs
      IN /\ (\E k \in NumericKeys : HasKey(e, k) /\ ~IsNumeral(FirstValue(e, k))) =>
              vmCalls[r] = <<>> /\ ret[r].err \in ParseErrors
         /\ (\A k \in NumericKeys : HasKey(e, k) => Numeric(FirstValue(e, k))) =>
              /\ Len(vmCalls[r]) = 1
              /\ ArgIsExact(e, guestMemorySizeMibEnv, vmCalls[r][1].mem, defaultMemorySizeMib)
              /\ ArgIsExact(e, guestvCPUCount, vmCalls[r][1].vcpu, defaultvCPUCount)

\* the same with the values restricted to those a uint32 holds
InUint32(s) == ~Negative(s) /\ DecLeq(Canon(Body(s)), <<"4", "2", "9", "4", "9", "6", "7", "2", "9", "5">>)

ExactValuesInRange ==
  \A r \in Live :
    (IsWorkload(r) /\ HasKey(req[r].envs, guestImageEnv) /\ HasKey(req[r].envs, revisionEnv)) =>
      LET e == req[r].envs
      IN /\ (\E k \in NumericKeys : HasKey(e, k) /\ ~IsNumeral(FirstValue(e, k))) =>
              vmCalls[r] = <<>> /\ ret[r].err \in ParseErrors
         /\ (\A k \in NumericKeys :
               HasKey(e, k) => IsNumeral(FirstValue(e, k)) /\ InUint32(FirstValue(e, k))) =>
              /\ Len(vmCalls[r]) = 1
              /\ ArgIsExact(e, guestMemorySizeMibEnv, vmCalls[r][1].mem, defaultMemorySizeMib)
              /\ ArgIsExact(e, guestvCPUCount, vmCalls[r][1].vcpu, defaultvCPUCount)

(***************************************************************************)
(* C3: a sidecar request whose pod has no entry in the Pod VM Config Store *)
(* at lookup time returns the no-VM-configuration error in that same step, *)
(* without waiting or retrying, and never calls the stock runtime.         *)
(***************************************************************************)
C3_SidecarWithoutConfigFailsFast ==
  /\ [][\A r \in Live :
          (pc[r] = "idle" /\ req'[r].name = queueProxyName
             /\ req'[r].pod \notin DOMAIN podVMConfigs) =>
            /\ pc'[r] = "done"
            /\ ret'[r] = [resp |-> NilResp, err |-> ErrNoConfig]
            /\ stockCalls'[r] = <<>>]_vars
  /\ [](\A r \in Live :
          (IsSidecar(r) /\ ret[r].err = ErrNoConfig) =>
            pc[r] = "done" /\ stockCalls[r] = <<>> /\ vmConfig[r] = NoConfig)

\* a sidecar that failed while the workload of its pod is still booting
C3_Witness ==
  \E r, q \in Live :
    /\ IsSidecar(r) /\ ret[r].err = ErrNoConfig
    /\ IsWorkload(q) /\ req[q].pod = req[r].pod /\ pc[q] = "startVM"

(***************************************************************************)
(* C4: round trip for one pod.  A sidecar lookup after a publish, with no  *)
(* earlier consumer, finds the entry; once it has returned the entry is    *)
(* gone; a sidecar that arrives after a consumer returned, with no publish *)
(* in between, fails with the no-VM-configuration error.                   *)
(***************************************************************************)
Found(r) == IsSidecar(r) /\ ret[r].err # ErrNoConfig

C4_RoundTrip ==
  \A r \in Live :
    IsSidecar(r) =>
      /\ (seen[r].pubs >= 1 /\ seen[r].removed = {}) => Found(r)
      /\ (Found(r) /\ pc[r] = "done" /\ pubCount[req[r].pod] = seen[r].pubsAtRemove) =>
           req[r].pod \notin DOMAIN podVMConfigs
      /\ \A q \in seen[r].removed :
           seen[q].pubsAtRemove = seen[r].pubs =>
             ret[r].err = ErrNoConfig /\ pc[r] = "done" /\ stockCalls[r] = <<>>

\* publish, a first sidecar that consumed, a second one that failed
C4_Witness ==
  \E q, r \in Live :
    /\ Found(q) /\ seen[q].pubs >= 1 /\ pc[q] = "done"
    /\ IsSidecar(r) /\ q \in seen[r].removed
    /\ seen[q].pubsAtRemove = seen[r].pubs
    /\ ret[r].err = ErrNoConfig

(***************************************************************************)
(* C5: a published entry is read at most once: the sidecar requests of a   *)
(* pod that obtained a configuration and forwarded to the stock runtime    *)
(* are no more than the publishes for that pod.                            *)
(* (Lookup and removal are two steps, so two sidecars can both read.)      *)
(***************************************************************************)
C5_EntryReadAtMostOnce ==
  \A p \in Pods :
    Cardinality({r \in Live : IsSidecar(r) /\ req[r].pod = p /\ stockCalls[r] # <<>>})
      <= pubCount[p]

(***************************************************************************)
(* C6: when the VM boot of a workload request fails, no step of the        *)
(* request adds to the Active VM Registry and the caller receives the      *)
(* VM-boot error, whatever the placeholder goroutine does.                 *)
(***************************************************************************)
BootFailed(r) ==
  IsWorkload(r) /\ vmCalls[r] # <<>> /\ pc[r] # "startVM" /\ funcInst[r] = NoInst

C6_BootFailureRegistersNothing ==
  /\ [](\A r \in Live :
          BootFailed(r) =>
            /\ pc[r] = "done"
            /\ ret[r] = [resp |-> NilResp, err |-> ErrStartVM]
            /\ EntriesOf(activeVMs, r) = {})
  /\ [][\A r \in Live :
          (BootFailed(r) /\ StepOf(r)) => UNCHANGED activeVMs]_vars

\* the boot failed and the placeholder was created
C6_Witness ==
  \E r \in Live :
    /\ BootFailed(r) /\ ret[r].err = ErrStartVM
    /\ task[r] = "done" /\ stockErr[r] = Nil

(***************************************************************************)
(* C7: when the VM boot succeeds and the placeholder creation fails, the   *)
(* registry gains no entry from the request and the caller receives the    *)
(* error the stock runtime gave.                                           *)
(***************************************************************************)
PlaceholderFailed(r) ==
  /\ IsWorkload(r) /\ funcInst[r] # NoInst
  /\ stockCalls[r] # <<>> /\ stockCalls[r][1].err # Nil

C7_PlaceholderFailureRegistersNothing ==
  /\ [](\A r \in Live :
          PlaceholderFailed(r) =>
            /\ EntriesOf(activeVMs, r) = {}
            /\ pc[r] = "done" =>
                 ret[r] = [resp |-> NilResp, err |-> stockCalls[r][1].err])
  /\ [][\A r \in Live :
          (PlaceholderFailed(r) /\ StepOf(r)) => UNCHANGED activeVMs]_vars

C7_Witness ==
  \E r \in Live :
    /\ PlaceholderFailed(r) /\ pc[r] = "done" /\ ret[r].err = ErrStock
    /\ req[r].pod \in DOMAIN podVMConfigs

(***************************************************************************)
(* C8: when both the VM boot and the placeholder creation succeed and the  *)
(* returned container id is not registered yet, the request returns with   *)
(* exactly one registry entry for its VM, under that container id, and the *)
(* caller receives the stock runtime's response; the entry stays.          *)
(***************************************************************************)
C8_SuccessRegistersOnce ==
  /\ [][\A r \in Live :
          (/\ IsWorkload(r) /\ pc[r] = "wait" /\ pc'[r] = "done"
           /\ funcInst[r] # NoInst
           /\ stockCalls[r][1].err = Nil
           /\ stockCalls[r][1].resp.ContainerId \notin DOMAIN activeVMs) =>
            LET id == stockCalls[r][1].resp.ContainerId
            IN /\ id \in DOMAIN activeVMs'
               /\ activeVMs'[id] = [vmID |-> r, GuestIP |-> IPOf(r)]
               /\ EntriesOf(activeVMs', r) = {id}
               /\ \A c \in DOMAIN activeVMs : activeVMs'[c] = activeVMs[c]
               /\ ret'[r] = [resp |-> stockCalls[r][1].resp, err |-> Nil]]_vars
  /\ [](\A r \in Live :
          (IsWorkload(r) /\ pc[r] = "done" /\ ret[r].err = Nil) =>
            /\ ret[r].resp = stockCalls[r][1].resp
            /\ EntriesOf(activeVMs, r) = {ret[r].resp.ContainerId})

\* two workload requests registered under different container ids
C8_Witness ==
  \E q, r \in Live :
    /\ q # r
    /\ IsWorkload(q) /\ pc[q] = "done" /\ ret[q].err = Nil
    /\ IsWorkload(r) /\ pc[r] = "done" /\ ret[r].err = Nil
    /\ activeVMs[ret[r].resp.ContainerId].vmID = r
    /\ activeVMs[ret[q].resp.ContainerId].vmID = q

(***************************************************************************)
(* C9: a request with any other container name is forwarded once and       *)
(* unmodified to the stock runtime, whose response or error is returned    *)
(* unchanged; it never calls startVM and changes neither store.            *)
(***************************************************************************)
C9_OtherIsForwardedVerbatim ==
  /\ [][\A r \in Live :
          (pc[r] = "idle" /\ pc'[r] # "idle"
             /\ req'[r].name \notin {userContainerName, queueProxyName}) =>
            /\ Len(stockCalls'[r]) = 1
            /\ stockCalls'[r][1].req = req'[r]
            /\ ret'[r] = [resp |-> stockCalls'[r][1].resp, err |-> stockCalls'[r][1].err]
            /\ pc'[r] = "done"
            /\ UNCHANGED <<podVMConfigs, activeVMs, vmCalls>>]_vars
  /\ [][\A r \in Live :
          (IsOther(r) /\ StepOf(r)) => FALSE]_vars
  /\ [](\A r \in Live :
          IsOther(r) => Len(stockCalls[r]) = 1 /\ vmCalls[r] = <<>> /\ task[r] = "none")

\* forwarded requests, one answered and one refused, beside a published
\* config and a registered VM
C9_Witness ==
  \E r \in Live :
    /\ IsOther(r) /\ pc[r] = "done" /\ ret[r].err = Nil
    /\ stockCalls[r][1].req.envs # <<>>
    /\ DOMAIN podVMConfigs # {}

(***************************************************************************)
(* C11: the memory-size and vCPU-count values are parsed as unsigned       *)
(* integers: a value that is present either reaches startVM as exactly the *)
(* non-negative number it denotes, or the request fails; a negative number *)
(* or one above the unsigned 32-bit maximum is an error and never reaches  *)
(* startVM.                                                                *)
(* (strconv.Atoi parses a signed int and uint32() wraps, so this fails.)   *)
(***************************************************************************)
IsUnsigned32(s) == IsNumeral(s) /\ InUint32(s)

C11_UnsignedOrError ==
  \A r \in Live :
    (IsWorkload(r) /\ HasKey(req[r].envs, guestImageEnv) /\ HasKey(req[r].envs, revisionEnv)) =>
      LET e == req[r].envs
      IN /\ (HasKey(e, guestMemorySizeMibEnv) /\ vmCalls[r] # <<>>) =>
              Denotes(FirstValue(e, guestMemorySizeMibEnv), vmCalls[r][1].mem)
         /\ (HasKey(e, guestvCPUCount) /\ vmCalls[r] # <<>>) =>
              Denotes(FirstValue(e, guestvCPUCount), vmCalls[r][1].vcpu)
         /\ (\E k \in NumericKeys : HasKey(e, k) /\ ~IsUnsigned32(FirstValue(e, k))) =>
              /\ vmCalls[r] = <<>>
              /\ ret[r].resp = NilResp /\ ret[r].err \in ParseErrors

(***************************************************************************)
(* C12: a sidecar request that is forwarded is forwarded once, as received *)
(* plus exactly two trailing variables: GUEST_ADDR with the guest address  *)
(* of a VM booted by a workload request of the same pod, and GUEST_PORT    *)
(* with 50051; it never carries the address of a VM booted for another     *)
(* pod.                                                                    *)
(***************************************************************************)
BootedFor(p) ==
  {q \in Live : IsWorkload(q) /\ req[q].pod = p /\ funcInst[q] # NoInst}

C12_SidecarGetsItsPodsVM ==
  \A r \in Live :
    (IsSidecar(r) /\ stockCalls[r] # <<>>) =>
      LET sent == stockCalls[r][1].req
          n == Len(req[r].envs)
      IN /\ Len(stockCalls[r]) = 1
         /\ sent.name = req[r].name /\ sent.pod = req[r].pod
         /\ Len(sent.envs) = n + 2
         /\ SubSeq(sent.envs, 1, n) = req[r].envs
         /\ sent.envs[n + 1].key = "GUEST_ADDR"
         /\ \E q \in BootedFor(req[r].pod) :
              sent.envs[n + 1].value = funcInst[q].GuestIP
         /\ \A q \in Live :
              (IsWorkload(q) /\ req[q].pod # req[r].pod /\ funcInst[q] # NoInst) =>
                sent.envs[n + 1].value # funcInst[q].GuestIP
         /\ sent.envs[n + 2] = [key |-> "GUEST_PORT", value |-> <<"5", "0", "0", "5", "1">>]

\* VMs booted for two pods, and the sidecar of the second pod forwarded
C12_Witness ==
  \E q, w, r \in Live :
    /\ IsWorkload(q) /\ funcInst[q] # NoInst
    /\ IsWorkload(w) /\ funcInst[w] # NoInst /\ req[w].pod # req[q].pod
    /\ IsSidecar(r) /\ req[r].pod = req[w].pod
    /\ pc[r] = "done" /\ ret[r].err = Nil /\ stockCalls[r] # <<>>

(***************************************************************************)
(* C13: when the container id the stock runtime returned for the           *)
(* placeholder is already a key of the Active VM Registry, the workload    *)
(* request returns the duplicate-key error and no response, and the        *)
(* registry is left as it was: the earlier entry keeps its VM.             *)
(***************************************************************************)
C13_DuplicateKeyIsAnError ==
  [][\A r \in Live :
       (/\ IsWorkload(r) /\ pc[r] = "wait" /\ pc'[r] = "done"
        /\ stockCalls[r][1].err = Nil
        /\ stockCalls[r][1].resp.ContainerId \in DOMAIN activeVMs) =>
         /\ ret'[r] = [resp |-> NilResp, err |-> ErrActive]
         /\ activeVMs' = activeVMs]_vars

\* a request refused for a container id that another request's VM holds
C13_Witness ==
  \E q, r \in Live :
    /\ q # r
    /\ IsWorkload(r) /\ pc[r] = "done" /\ ret[r].err = ErrActive
    /\ stockCalls[r][1].resp.ContainerId \in DOMAIN activeVMs
    /\ activeVMs[stockCalls[r][1].resp.ContainerId] = funcInst[q]
    /\ funcInst[r] # NoInst

(***************************************************************************)
(* C14: the VM config is published before the workload request waits for   *)
(* the placeholder goroutine: the step in which a successful boot returns  *)
(* leaves the pod's entry, with the new VM's address, in the store whether *)
(* or not the goroutine has finished, and a sidecar request of the pod     *)
(* that arrives while the workload request waits finds an entry unless a   *)
(* sidecar has removed it since the last publish.                          *)
(***************************************************************************)
RemovedSinceLastPublish(p) ==
  \E s \in Live :
    /\ IsSidecar(s) /\ req[s].pod = p /\ pc[s] = "done" /\ Found(s)
    /\ seen[s].pubsAtRemove = pubCount[p]

C14_PublishedBeforeJoin ==
  /\ [][\A r \in Live :
          (IsWorkload(r) /\ pc[r] = "startVM" /\ pc'[r] = "wait") =>
            /\ req[r].pod \in DOMAIN podVMConfigs'
            /\ podVMConfigs'[req[r].pod] =
                 [guestIP |-> funcInst'[r].GuestIP, guestPort |-> <<"5", "0", "0", "5", "1">>]
            /\ task'[r] = task[r]]_vars
  /\ [][\A r, q \in Live :
          (/\ IsWorkload(r) /\ pc[r] = "wait" /\ task[r] = "running"
           /\ pc[q] = "idle" /\ pc'[q] # "idle"
           /\ req'[q].name = queueProxyName /\ req'[q].pod = req[r].pod
           /\ ~RemovedSinceLastPublish(req[r].pod)) =>
            /\ pc'[q] = "qp_remove"
            /\ vmConfig'[q] # NoConfig]_vars

\* a sidecar holding the address of a VM whose request still waits for its
\* running goroutine
C14_Witness ==
  \E r, q \in Live :
    /\ IsWorkload(r) /\ pc[r] = "wait" /\ task[r] = "running"
    /\ IsSidecar(q) /\ req[q].pod = req[r].pod
    /\ vmConfig[q].guestIP = funcInst[r].GuestIP

(***************************************************************************)
(* C15: a failed VM boot returns without waiting for the placeholder       *)
(* goroutine: the boot error can be returned whatever the goroutine's      *)
(* state, the goroutine can still finish afterwards, and its result is     *)
(* never used: the caller has the boot error and no response, and          *)
(* neither the store nor the registry changes when it finishes.            *)
(***************************************************************************)
BootErrorReturn(r) == StartVMReturns(r) /\ ret'[r].err = ErrStartVM

C15_BootFailureDoesNotJoin ==
  /\ [](\A r \in Live :
          /\ (IsWorkload(r) /\ pc[r] = "startVM") => ENABLED BootErrorReturn(r)
          /\ (BootFailed(r) /\ task[r] = "running") => ENABLED PlaceholderTask(r)
          /\ (BootFailed(r) /\ pc[r] = "done") =>
               ret[r] = [resp |-> NilResp, err |-> ErrStartVM])
  /\ [][\A r \in Live :
          (BootFailed(r) /\ task[r] = "running" /\ task'[r] # "running") =>
            UNCHANGED <<ret, pc, podVMConfigs, activeVMs>>]_vars

\* the boot error returned while the goroutine is still running
C15_Witness ==
  \E r \in Live :
    /\ BootFailed(r) /\ pc[r] = "done" /\ ret[r].err = ErrStartVM
    /\ task[r] = "running" /\ stockCalls[r] = <<>>

(***************************************************************************)
(* C16: every entry of the Active VM Registry was inserted by a workload   *)
(* request whose VM boot and placeholder creation both succeeded: its key  *)
(* is the container id returned to that request and its value is the VM    *)
(* booted by that request, never the id or the VM of another request; and  *)
(* a workload request returns success only after both have completed.      *)
(***************************************************************************)
C16_RegistryEntriesAreOwn ==
  /\ \A c \in DOMAIN activeVMs :
       \E r \in Live :
         /\ IsWorkload(r) /\ vmCalls[r] # <<>>
         /\ funcInst[r] # NoInst /\ activeVMs[c] = funcInst[r]
         /\ \A q \in Live \ {r} : funcInst[q] # activeVMs[c]
         /\ task[r] = "done"
         /\ Len(stockCalls[r]) = 1 /\ stockCalls[r][1].req = req[r]
         /\ stockCalls[r][1].err = Nil /\ stockCalls[r][1].resp.ContainerId = c
         /\ pc[r] = "done" /\ ret[r] = [resp |-> [ContainerId |-> c], err |-> Nil]
  /\ \A r \in Live :
       (IsWorkload(r) /\ pc[r] = "done" /\ ret[r].err = Nil) =>
         /\ vmCalls[r] # <<>> /\ funcInst[r] # NoInst
         /\ task[r] = "done" /\ stockCalls[r] # <<>> /\ stockCalls[r][1].err = Nil

\* two registered requests and a third one refused for a duplicate key
C16_Witness ==
  /\ Cardinality(DOMAIN activeVMs) = 2
  /\ \E r \in Live : IsWorkload(r) /\ pc[r] = "done" /\ ret[r].err = ErrActive

(***************************************************************************)
(* C17: when the VM boot succeeds and the placeholder creation fails, the  *)
(* published VM config is not withdrawn: the failing return changes        *)
(* neither the store nor the registry, the entry is still in the store     *)
(* afterwards unless a sidecar has read it or another publish replaced it, *)
(* and a sidecar that reads it is forwarded with the address of a VM that  *)
(* has no registry entry.                                                  *)
(***************************************************************************)
ReadBySidecar(p) ==
  \E s \in Live : IsSidecar(s) /\ req[s].pod = p /\ vmConfig[s] # NoConfig

C17_PublishedEntryOutlivesFailure ==
  /\ [][\A r \in Live :
          (/\ IsWorkload(r) /\ pc[r] = "wait" /\ pc'[r] = "done"
           /\ stockCalls[r][1].err # Nil) =>
            /\ ret'[r] = [resp |-> NilResp, err |-> stockCalls[r][1].err]
            /\ podVMConfigs' = podVMConfigs
            /\ activeVMs' = activeVMs]_vars
  /\ [](\A r \in Live :
          (/\ PlaceholderFailed(r) /\ pc[r] = "done"
           /\ pubCount[req[r].pod] = 1 /\ ~ReadBySidecar(req[r].pod)) =>
            /\ req[r].pod \in DOMAIN podVMConfigs
            /\ podVMConfigs[req[r].pod].guestIP = funcInst[r].GuestIP)
  /\ [](\A r, q \in Live :
          (/\ PlaceholderFailed(r) /\ IsSidecar(q) /\ stockCalls[q] # <<>>
           /\ vmConfig[q].guestIP = funcInst[r].GuestIP) =>
            /\ req[q].pod = req[r].pod
            /\ stockCalls[q][1].req.envs[Len(req[q].envs) + 1] =
                 [key |-> "GUEST_ADDR", value |-> funcInst[r].GuestIP]
            /\ \A c \in DOMAIN activeVMs : activeVMs[c] # funcInst[r])

\* the request failed on the placeholder, and a sidecar of the pod was
\* forwarded with its VM's address
C17_Witness ==
  \E r, q \in Live :
    /\ PlaceholderFailed(r) /\ pc[r] = "done" /\ ret[r].err = ErrStock
    /\ IsSidecar(q) /\ pc[q] = "done" /\ ret[q].err = Nil
    /\ seen[q].pubs = 1 /\ seen[q].removed = {}
    /\ vmConfig[q].guestIP = funcInst[r].GuestIP
    /\ EntriesOf(activeVMs, r) = {}

(***************************************************************************)
(* C18: the sidecar path removes the pod's entry when it forwards to the   *)
(* stock runtime and does not put it back when the stock runtime fails: a  *)
(* further sidecar request of the pod, with no publish in between, fails   *)
(* with the no-VM-config error and is not forwarded.                       *)
(***************************************************************************)
SidecarFailed(r) ==
  IsSidecar(r) /\ stockCalls[r] # <<>> /\ stockCalls[r][1].err # Nil

C18_FailedSidecarConsumesEntry ==
  /\ [][\A r \in Live :
          (IsSidecar(r) /\ pc[r] = "qp_remove" /\ pc'[r] = "done") =>
            /\ Len(stockCalls'[r]) = 1
            /\ ret'[r].err = stockCalls'[r][1].err
            /\ req[r].pod \notin DOMAIN podVMConfigs']_vars
  /\ [](\A r, q \in Live :
          (/\ SidecarFailed(r) /\ IsSidecar(q) /\ req[q].pod = req[r].pod
           /\ r \in seen[q].removed /\ seen[q].pubs = seen[r].pubsAtRemove) =>
            /\ pc[q] = "done" /\ ret[q] = [resp |-> NilResp, err |-> ErrNoConfig]
            /\ stockCalls[q] = <<>>)

\* a sidecar failed at the stock runtime, and its repetition found no entry
C18_Witness ==
  \E r, q \in Live :
    /\ SidecarFailed(r) /\ ret[r].err = ErrStock
    /\ IsSidecar(q) /\ req[q].pod = req[r].pod
    /\ r \in seen[q].removed /\ seen[q].pubs = seen[r].pubsAtRemove
    /\ ret[q].err = ErrNoConfig

(***************************************************************************)
(* C19: every creation request that has arrived eventually returns, given  *)
(* that the goroutines are scheduled and startVM and the stock runtime     *)
(* answer every call: a request in flight is eventually done, a started    *)
(* placeholder goroutine eventually closes stockDone, and a workload       *)
(* request waiting at the join gets past it.                               *)
(***************************************************************************)
C19_EveryRequestReturns ==
  /\ \A r \in 1..MaxReq : (pc[r] \notin {"idle", "done"}) ~> (pc[r] = "done")
  /\ \A r \in 1..MaxReq : (task[r] = "running") ~> (task[r] = "done")
  /\ \A r \in 1..MaxReq : (pc[r] = "wait") ~> (pc[r] = "done" /\ task[r] = "done")

\* every request has returned: a workload past the join whose placeholder
\* failed, a workload whose boot failed, and a forwarded sidecar
C19_Witness ==
  /\ \A r \in Live : pc[r] = "done" /\ task[r] # "running"
  /\ \E r \in Live : PlaceholderFailed(r)
  /\ \E r \in Live : BootFailed(r)
  /\ \E r \in Live : IsSidecar(r) /\ stockCalls[r] # <<>>

====
